---- MODULE Spec2Model ----
(***************************************************************************)
(* Model of roamer's ConversationManager (agents/conversation_manager.py): *)
(* the turn pipeline validate_and_get_followup, the gate                   *)
(* should_continue_planning, and the session state it owns                 *)
(* (conversation_history, parsed_details).                                 *)
(*                                                                         *)
(* Python values are tagged records, so that values of different Python    *)
(* types can be compared.  A Python str is a sequence of chunks (a chunk   *)
(* is a word or a single blank), so that strip() and join() are computed.  *)
(***************************************************************************)
EXTENDS Integers, Sequences, FiniteSets, TLC

VARIABLES conversation_history, parsed_details, session_state,
          second_manager, call

vars == <<conversation_history, parsed_details, session_state,
          second_manager, call>>

(***************************************************************************)
(* Bounds                                                                  *)
(***************************************************************************)
MaxHistory == 2

\* the chat page: messages shown and utterances kept
MaxMessages == 7

MaxContext == 3

(***************************************************************************)
(* Python / JSON values                                                    *)
(***************************************************************************)
Absent == [kind |-> "absent", s |-> <<>>, n |-> 0, l |-> <<>>]

JNull == [kind |-> "null", s |-> <<>>, n |-> 0, l |-> <<>>]

JStr(x) == [kind |-> "str", s |-> x, n |-> 0, l |-> <<>>]

JInt(x) == [kind |-> "int", s |-> <<>>, n |-> x, l |-> <<>>]

JList(x) == [kind |-> "list", s |-> <<>>, n |-> 0, l |-> x]

\* bool(v): None, "", 0 and [] are falsy
Truthy(v) ==
    CASE v.kind = "str" -> v.s # <<>>
      [] v.kind = "int" -> v.n # 0
      [] v.kind = "list" -> v.l # <<>>
      [] OTHER -> FALSE

\* the keys a details dict can carry
Keys == {"location", "duration", "interests", "budget", "travel_type", "error"}

TripFields == {"location", "duration", "interests", "budget", "travel_type"}

\* a details dict: every key is mapped, Absent marking a key that is not in it
Dict(lo, du, i, b, t, e) ==
    [location |-> lo, duration |-> du, interests |-> i, budget |-> b,
     travel_type |-> t, error |-> e]

\* {}
EmptyDict == Dict(Absent, Absent, Absent, Absent, Absent, Absent)

\* k in d
Has(d, k) == d[k].kind # "absent"

\* d.get(k)
Get(d, k) == IF Has(d, k) THEN d[k] ELSE JNull

\* d.get(k, default)
GetOr(d, k, default) == IF Has(d, k) THEN d[k] ELSE default

\* d.setdefault(k, default), as the value k has afterwards
SetDefault(d, k, default) == IF Has(d, k) THEN d[k] ELSE default

KeysOf(d) == {k \in DOMAIN d : Has(d, k)}

\* {"error": msg}
ErrorDict(msg) == Dict(Absent, Absent, Absent, Absent, Absent, JStr(msg))

\* an analysis dict
Analysis(e, p, m, u, c) ==
    [error |-> e, provided |-> p, missing |-> m, unclear |-> u, confidence |-> c]

\* the composer's reply dict
QuestionDict(e, q) == [error |-> e, question |-> q]

\* outcome of a call: a returned value or a raised exception
Return(v) == [raised |-> FALSE, value |-> v, exc |-> <<>>]

Raise(e) == [raised |-> TRUE, value |-> Absent, exc |-> e]

\* str.strip(): drop the leading and the trailing blanks
RECURSIVE LStrip(_)
LStrip(s) == IF s # <<>> /\ Head(s) = " " THEN LStrip(Tail(s)) ELSE s

RECURSIVE RStrip(_)
RStrip(s) ==
    IF s # <<>> /\ s[Len(s)] = " " THEN RStrip(SubSeq(s, 1, Len(s) - 1)) ELSE s

Strip(s) == RStrip(LStrip(s))

(***************************************************************************)
(* The backend call (self.call_openai_api), as ConversationManager makes   *)
(* it.  A reply says what answers the call: a Mock put in place of the     *)
(* method (as the tests do), which raises or returns a value, or the       *)
(* method of BaseAgent itself, which takes the keywords of its signature   *)
(* and returns what json.loads makes of the backend's text (a dict or      *)
(* another JSON value) or an error dict.                                   *)
(***************************************************************************)
\* a Mock with a side effect
BackendRaises == [raises |-> TRUE, mock |-> TRUE, body |-> Absent]

\* a Mock with a return value
BackendReturns(d) == [raises |-> FALSE, mock |-> TRUE, body |-> d]

\* BaseAgent.call_openai_api, the backend's text parsing to d
RealReturns(d) == [raises |-> FALSE, mock |-> FALSE, body |-> d]

\* the keywords of BaseAgent.call_openai_api's signature
AcceptedKeywords ==
    {"system_prompt", "user_prompt", "model", "temperature", "max_tokens"}

\* the keywords ConversationManager passes in each of its three calls
ManagerKeywords ==
    {"system_prompt", "user_prompt", "temperature", "max_tokens",
     "use_json_response"}

\* a dict, as opposed to any other JSON value (a list, a string, a number, null)
IsDict(v) == "kind" \notin DOMAIN v

\* the keywords CoordinatorAgent passes in its call
CoordinatorKeywords ==
    {"system_prompt", "user_prompt", "temperature", "max_tokens"}

\* the keywords AttractionAgent.find_attractions passes
AttractionKeywords ==
    {"system_prompt", "user_prompt", "temperature", "max_tokens",
     "use_json_response"}

\* the keywords LogisticAgent passes in each of its two calls
LogisticKeywords ==
    {"system_prompt", "user_prompt", "temperature", "max_tokens"}

\* a call of the method with the given keywords
BaseAgentCall(reply, keywords) ==
    IF reply.raises THEN Raise(<<"backend call failed">>)
    ELSE IF ~reply.mock /\ ~(keywords \subseteq AcceptedKeywords)
    THEN Raise(<<"got an unexpected keyword argument">>)
    ELSE Return(reply.body)

call_openai_api(reply) == BaseAgentCall(reply, ManagerKeywords)

(***************************************************************************)
(* ConversationManager.parse_travel_details: the extractor                 *)
(***************************************************************************)
\* v if v is not None (a None value's key is dropped)
DropNull(v) == IF v.kind = "null" THEN Absent ELSE v

\* {k: v for k, v in details.items() if v is not None}
Cleaned(details) ==
    Dict(DropNull(details.location), DropNull(details.duration),
         DropNull(details.interests), DropNull(details.budget),
         DropNull(details.travel_type), DropNull(details.error))

\* an extractor that fills in a duration of 3 days when none was stated
parse_travel_details_defaultDuration(reply) ==
    LET r == call_openai_api(reply)
    IN  IF r.raised THEN r
        ELSE IF ~IsDict(r.value)
        THEN Raise(<<"object has no attribute 'items'">>)
        ELSE IF Has(r.value, "error")
        THEN Return(ErrorDict(<<"Failed to parse travel details">>))
        ELSE IF ~Truthy(Get(Cleaned(r.value), "location"))
        THEN Return(ErrorDict(<<"Location is required">>))
        ELSE Return([Cleaned(r.value) EXCEPT
                        !.duration = SetDefault(Cleaned(r.value), "duration",
                                                JInt(3))])

\* an extractor that asks only for the location key to be there
parse_travel_details_acceptsEmptyLocation(reply) ==
    LET r == call_openai_api(reply)
    IN  IF r.raised THEN r
        ELSE IF ~IsDict(r.value)
        THEN Raise(<<"object has no attribute 'items'">>)
        ELSE IF Has(r.value, "error")
        THEN Return(ErrorDict(<<"Failed to parse travel details">>))
        ELSE IF ~Has(Cleaned(r.value), "location")
        THEN Return(ErrorDict(<<"Location is required">>))
        ELSE Return(Cleaned(r.value))

\* an extractor that adds the error marker to the fields it extracted
parse_travel_details_keepsPartial(reply) ==
    LET r == call_openai_api(reply)
    IN  IF r.raised THEN r
        ELSE IF ~IsDict(r.value)
        THEN Raise(<<"object has no attribute 'items'">>)
        ELSE IF Has(r.value, "error")
        THEN Return(ErrorDict(<<"Failed to parse travel details">>))
        ELSE IF ~Truthy(Get(Cleaned(r.value), "location"))
        THEN Return([Cleaned(r.value) EXCEPT
                        !.error = JStr(<<"Location is required">>)])
        ELSE Return(Cleaned(r.value))

parse_travel_details(reply) ==
    LET r == call_openai_api(reply)
        details == r.value
        cleaned_details ==
            Dict(DropNull(details.location), DropNull(details.duration),
                 DropNull(details.interests), DropNull(details.budget),
                 DropNull(details.travel_type), DropNull(details.error))
    IN  IF r.raised THEN r
        ELSE IF ~IsDict(details)
        THEN Raise(<<"object has no attribute 'items'">>)
        ELSE IF Has(details, "error")
        THEN Return(ErrorDict(<<"Failed to parse travel details">>))
        ELSE IF ~Has(cleaned_details, "location")
                \/ ~Truthy(Get(cleaned_details, "location"))
        THEN Return(ErrorDict(<<"Location is required">>))
        ELSE Return(cleaned_details)

\* a fallback that reports nothing as missing
FallbackAnalysis_nothingMissing ==
    Analysis(Absent, JList(<<>>), JList(<<>>), JList(<<>>), JInt(0))

(***************************************************************************)
(* ConversationManager.analyze_missing_info: the analyzer                  *)
(***************************************************************************)
FallbackAnalysis ==
    Analysis(Absent, JList(<<>>),
             JList(<<<<"location">>, <<"duration">>, <<"interests">>>>),
             JList(<<>>), JInt(0))

\* analyze_missing_info returning the backend's dict as it came
analyze_missing_info_noDefaults(reply) == call_openai_api(reply)

analyze_missing_info(reply) ==
    LET r == call_openai_api(reply)
        analysis == IF Has(r.value, "error") THEN FallbackAnalysis ELSE r.value
    IN  IF r.raised THEN r
        ELSE IF ~IsDict(r.value)
        THEN Raise(<<"object has no attribute 'setdefault'">>)
        ELSE Return(Analysis(analysis.error,
                             SetDefault(analysis, "provided", JList(<<>>)),
                             SetDefault(analysis, "missing", JList(<<>>)),
                             SetDefault(analysis, "unclear", JList(<<>>)),
                             SetDefault(analysis, "confidence", JInt(0))))

(***************************************************************************)
(* ConversationManager.should_continue_planning: the gate                  *)
(***************************************************************************)
NeedLocation == <<"We need to know where you want to go.">>

NeedDuration == <<"We need to know how long you'll be staying.">>

NeedInterests ==
    <<"We need to know what interests you to personalize your trip.">>

Decision(p, r) == [proceed |-> p, reason |-> r]

\* faulty variant: the location check is left out
should_continue_planning_noLocation(parsed, analysis) ==
    LET interests == GetOr(parsed, "interests", JList(<<>>))
    IN  IF ~Truthy(Get(parsed, "duration")) THEN Decision(FALSE, NeedDuration)
        ELSE IF ~Truthy(interests)
                \/ (interests.kind = "list" /\ Len(interests.l) = 0)
        THEN Decision(FALSE, NeedInterests)
        ELSE Decision(TRUE, <<>>)

\* faulty variant: budget is required too
should_continue_planning_needsBudget(parsed, analysis) ==
    LET interests == GetOr(parsed, "interests", JList(<<>>))
    IN  IF ~Truthy(Get(parsed, "location")) THEN Decision(FALSE, NeedLocation)
        ELSE IF ~Truthy(Get(parsed, "duration"))
        THEN Decision(FALSE, NeedDuration)
        ELSE IF ~Truthy(interests)
                \/ (interests.kind = "list" /\ Len(interests.l) = 0)
        THEN Decision(FALSE, NeedInterests)
        ELSE IF ~Truthy(Get(parsed, "budget"))
        THEN Decision(FALSE, <<"We need to know your budget.">>)
        ELSE Decision(TRUE, <<>>)

\* faulty variant: interests are checked before duration
should_continue_planning_interestsFirst(parsed, analysis) ==
    LET interests == GetOr(parsed, "interests", JList(<<>>))
    IN  IF ~Truthy(Get(parsed, "location")) THEN Decision(FALSE, NeedLocation)
        ELSE IF ~Truthy(interests)
                \/ (interests.kind = "list" /\ Len(interests.l) = 0)
        THEN Decision(FALSE, NeedInterests)
        ELSE IF ~Truthy(Get(parsed, "duration"))
        THEN Decision(FALSE, NeedDuration)
        ELSE Decision(TRUE, <<>>)

\* faulty variant: the interests check refuses without saying why
should_continue_planning_silentRefusal(parsed, analysis) ==
    LET interests == GetOr(parsed, "interests", JList(<<>>))
    IN  IF ~Truthy(Get(parsed, "location")) THEN Decision(FALSE, NeedLocation)
        ELSE IF ~Truthy(Get(parsed, "duration"))
        THEN Decision(FALSE, NeedDuration)
        ELSE IF ~Truthy(interests)
                \/ (interests.kind = "list" /\ Len(interests.l) = 0)
        THEN Decision(FALSE, <<>>)
        ELSE Decision(TRUE, <<>>)

\* faulty variant: a low confidence of the analysis blocks the turn
should_continue_planning_confidenceThreshold(parsed, analysis) ==
    LET interests == GetOr(parsed, "interests", JList(<<>>))
    IN  IF ~Truthy(Get(parsed, "location")) THEN Decision(FALSE, NeedLocation)
        ELSE IF ~Truthy(Get(parsed, "duration"))
        THEN Decision(FALSE, NeedDuration)
        ELSE IF ~Truthy(interests)
                \/ (interests.kind = "list" /\ Len(interests.l) = 0)
        THEN Decision(FALSE, NeedInterests)
        ELSE IF GetOr(analysis, "confidence", JInt(0)).n < 50
        THEN Decision(FALSE, <<"We are not sure we understood your request.">>)
        ELSE Decision(TRUE, <<>>)

should_continue_planning(parsed, analysis) ==
    LET interests == GetOr(parsed, "interests", JList(<<>>))
    IN  IF ~Truthy(Get(parsed, "location")) THEN Decision(FALSE, NeedLocation)
        ELSE IF ~Truthy(Get(parsed, "duration"))
        THEN Decision(FALSE, NeedDuration)
        ELSE IF ~Truthy(interests)
                \/ (interests.kind = "list" /\ Len(interests.l) = 0)
        THEN Decision(FALSE, NeedInterests)
        ELSE Decision(TRUE, <<>>)

(***************************************************************************)
(* ConversationManager.generate_followup_question: the follow-up composer  *)
(***************************************************************************)
DefaultQuestion == <<"Could you tell me more about your trip?">>

\* [item.get("field") for item in self.conversation_history if item.get("field")]
already_asked(history) ==
    LET asked == SelectSeq(history, LAMBDA item : Truthy(item.field))
    IN  [i \in 1..Len(asked) |-> asked[i].field]

\* whether the composer gets as far as its backend call
ComposerCalls(analysis) == Truthy(GetOr(analysis, "missing", JList(<<>>)))

\* a composer that returns the backend's question without stripping it
generate_followup_question_noStrip(parsed, analysis, history, reply) ==
    LET r == call_openai_api(reply)
    IN  IF ~Truthy(GetOr(analysis, "missing", JList(<<>>))) THEN Return(<<>>)
        ELSE IF r.raised THEN r
        ELSE IF ~IsDict(r.value)
        THEN Raise(<<"object has no attribute 'get'">>)
        ELSE IF Has(r.value, "error") THEN Return(DefaultQuestion)
        ELSE IF GetOr(r.value, "question", JStr(<<>>)).kind # "str"
        THEN Raise(<<"object has no attribute 'strip'">>)
        ELSE IF GetOr(r.value, "question", JStr(<<>>)).s = <<>>
        THEN Return(DefaultQuestion)
        ELSE Return(GetOr(r.value, "question", JStr(<<>>)).s)

\* a composer that returns the backend's question, stripped, even when
\* nothing is left of it
generate_followup_question_noDefault(parsed, analysis, history, reply) ==
    LET r == call_openai_api(reply)
    IN  IF ~Truthy(GetOr(analysis, "missing", JList(<<>>))) THEN Return(<<>>)
        ELSE IF r.raised THEN r
        ELSE IF ~IsDict(r.value)
        THEN Raise(<<"object has no attribute 'get'">>)
        ELSE IF Has(r.value, "error") THEN Return(DefaultQuestion)
        ELSE IF GetOr(r.value, "question", JStr(<<>>)).kind # "str"
        THEN Raise(<<"object has no attribute 'strip'">>)
        ELSE Return(Strip(GetOr(r.value, "question", JStr(<<>>)).s))

generate_followup_question(parsed, analysis, history, reply) ==
    LET missing_fields == GetOr(analysis, "missing", JList(<<>>))
        r == call_openai_api(reply)
        response == r.value
        question == GetOr(response, "question", JStr(<<>>))
    IN  IF ~Truthy(missing_fields) THEN Return(<<>>)
        ELSE IF r.raised THEN r
        ELSE IF ~IsDict(response)
        THEN Raise(<<"object has no attribute 'get'">>)
        ELSE IF Has(response, "error") THEN Return(DefaultQuestion)
        ELSE IF question.kind # "str"
        THEN Raise(<<"object has no attribute 'strip'">>)
        ELSE IF Strip(question.s) = <<>> THEN Return(DefaultQuestion)
        ELSE Return(Strip(question.s))

\* add_to_history putting the entry in front of the earlier entries
add_to_history_prepends(history, field, value) ==
    <<[field |-> field, value |-> value]>> \o history

(***************************************************************************)
(* ConversationManager.add_to_history                                      *)
(***************************************************************************)
add_to_history(history, field, value) ==
    Append(history, [field |-> field, value |-> value])

(***************************************************************************)
(* ConversationManager.validate_and_get_followup: one turn (step)          *)
(***************************************************************************)
MoreDetailsQuestion == <<"Could you provide more details about your trip?">>

\* faulty variant: the composer's question is returned as it is, empty or not
NeedsMoreInfoResult_rawFollowup(details, followup, analysis) ==
    [success |-> FALSE,
     needs_more_info |-> TRUE,
     details |-> details,
     followup_question |-> followup,
     missing_fields |-> GetOr(analysis, "missing", JList(<<>>)),
     confidence |-> GetOr(analysis, "confidence", JInt(0))]

\* the dict returned when the gate refuses
NeedsMoreInfoResult(details, followup, analysis) ==
    [success |-> FALSE,
     needs_more_info |-> TRUE,
     details |-> details,
     followup_question |-> IF followup # <<>> THEN followup ELSE MoreDetailsQuestion,
     missing_fields |-> GetOr(analysis, "missing", JList(<<>>)),
     confidence |-> GetOr(analysis, "confidence", JInt(0))]

\* faulty variant: the confidence is the default, not the analyzer's
ReadyResult_fixedConfidence(details, analysis) ==
    [success |-> TRUE,
     needs_more_info |-> FALSE,
     details |-> details,
     confidence |-> JInt(100)]

\* the dict returned when the gate lets the turn through
ReadyResult(details, analysis) ==
    [success |-> TRUE,
     needs_more_info |-> FALSE,
     details |-> details,
     confidence |-> GetOr(analysis, "confidence", JInt(100))]

\* faulty variant: the except clause returns no error message
FailedResult_noError(e) ==
    [success |-> FALSE,
     needs_more_info |-> TRUE]

\* the dict returned by the except clause
FailedResult(e) ==
    [success |-> FALSE,
     error |-> <<"Error validating your request: ">> \o e,
     needs_more_info |-> TRUE]

IsReady(r) == r.success

IsFailed(r) == "error" \in DOMAIN r

IsNeedsMoreInfo(r) == "followup_question" \in DOMAIN r

NoAnalysis == Analysis(Absent, Absent, Absent, Absent, Absent)

NoDecision == Decision(FALSE, <<>>)

\* the state a turn leaves and what it returns; calls lists the operations the
\* turn ran, in order, raised names the one that raised ("" when none did), and
\* details, analysis, decision and followup are the turn's locals (meaningful
\* once the operation that sets them has returned)
Turn(h, p, res, calls, raised, details, analysis, decision, followup) ==
    [history |-> h, parsed |-> p, result |-> res, calls |-> calls,
     raised |-> raised, details |-> details, analysis |-> analysis,
     decision |-> decision, followup |-> followup]

\* faulty variant: the context is stored before the gate's decision is looked at
Composed_storesDetails(history, parsed, details, analysis, g, f, calls) ==
    IF f.raised
    THEN Turn(history, details, FailedResult(f.exc), calls,
              "generate_followup_question", details, analysis, g, <<>>)
    ELSE Turn(add_to_history(history, JStr(<<"question">>), JStr(f.value)),
              details, NeedsMoreInfoResult(details, f.value, analysis),
              Append(calls, "add_to_history"), "",
              details, analysis, g, f.value)

\* faulty variant: asking a question drops the stored context
Composed_dropsAccumulated(history, parsed, details, analysis, g, f, calls) ==
    IF f.raised
    THEN Turn(history, parsed, FailedResult(f.exc), calls,
              "generate_followup_question", details, analysis, g, <<>>)
    ELSE Turn(add_to_history(history, JStr(<<"question">>), JStr(f.value)),
              EmptyDict, NeedsMoreInfoResult(details, f.value, analysis),
              Append(calls, "add_to_history"), "",
              details, analysis, g, f.value)

\* lines 257-267: the turn from the composer's outcome on
Composed(history, parsed, details, analysis, g, f, calls) ==
    IF f.raised
    THEN Turn(history, parsed, FailedResult(f.exc), calls,
              "generate_followup_question", details, analysis, g, <<>>)
    ELSE Turn(add_to_history(history, JStr(<<"question">>), JStr(f.value)),
              parsed, NeedsMoreInfoResult(details, f.value, analysis),
              Append(calls, "add_to_history"), "",
              details, analysis, g, f.value)

\* old.update(new): the fields of new, and those of old that new lacks
Merged(old, new) ==
    Dict(GetOr(new, "location", old.location), GetOr(new, "duration", old.duration),
         GetOr(new, "interests", old.interests), GetOr(new, "budget", old.budget),
         GetOr(new, "travel_type", old.travel_type), GetOr(new, "error", old.error))

\* faulty variant: a turn that is let through is logged in the history too
AfterGate_readyAsks(history, parsed, details, analysis, g, qr, calls) ==
    IF ~g.proceed
    THEN Composed(history, parsed, details, analysis, g,
                  generate_followup_question(details, analysis, history, qr),
                  Append(calls, "generate_followup_question"))
    ELSE Turn(add_to_history(history, JStr(<<"location">>), details.location),
              details, ReadyResult(details, analysis), calls, "",
              details, analysis, g, <<>>)

\* faulty variant: the extracted fields are merged into the stored ones
AfterGate_merges(history, parsed, details, analysis, g, qr, calls) ==
    IF ~g.proceed
    THEN Composed(history, parsed, details, analysis, g,
                  generate_followup_question(details, analysis, history, qr),
                  Append(calls, "generate_followup_question"))
    ELSE Turn(history, Merged(parsed, details), ReadyResult(details, analysis),
              calls, "", details, analysis, g, <<>>)

\* faulty variant: a Ready turn returns the new fields merged into the stored
\* ones
AfterGate_returnsAccumulated(history, parsed, details, analysis, g, qr, calls) ==
    IF ~g.proceed
    THEN Composed(history, parsed, details, analysis, g,
                  generate_followup_question(details, analysis, history, qr),
                  Append(calls, "generate_followup_question"))
    ELSE Turn(history, Merged(parsed, details),
              ReadyResult(Merged(parsed, details), analysis), calls, "",
              details, analysis, g, <<>>)

\* faulty variant: a refused field set is stored all the same
AfterGate_storesRefused(history, parsed, details, analysis, g, qr, calls) ==
    IF ~g.proceed
    THEN Composed(history, details, details, analysis, g,
                  generate_followup_question(details, analysis, history, qr),
                  Append(calls, "generate_followup_question"))
    ELSE Turn(history, details, ReadyResult(details, analysis), calls, "",
              details, analysis, g, <<>>)

\* lines 255-278: the turn from the gate's decision on
AfterGate(history, parsed, details, analysis, g, qr, calls) ==
    IF ~g.proceed
    THEN Composed(history, parsed, details, analysis, g,
                  generate_followup_question(details, analysis, history, qr),
                  Append(calls, "generate_followup_question"))
    ELSE Turn(history, details, ReadyResult(details, analysis), calls, "",
              details, analysis, g, <<>>)

\* lines 249-253: the turn from the analyzer's outcome on
AfterAnalysis(history, parsed, details, a, qr, calls) ==
    IF a.raised
    THEN Turn(history, parsed, FailedResult(a.exc), calls,
              "analyze_missing_info", details, NoAnalysis, NoDecision, <<>>)
    ELSE AfterGate(history, parsed, details, a.value,
                   should_continue_planning(details, a.value), qr,
                   Append(calls, "should_continue_planning"))

\* faulty variant: an extraction error ends the turn, the analyzer is not run
AfterParse_stopsOnError(history, parsed, d, ar, qr, calls) ==
    IF d.raised
    THEN Turn(history, parsed, FailedResult(d.exc), calls,
              "parse_travel_details", EmptyDict, NoAnalysis, NoDecision, <<>>)
    ELSE IF Has(d.value, "error")
    THEN Turn(history, parsed, FailedResult(d.value.error.s), calls,
              "", d.value, NoAnalysis, NoDecision, <<>>)
    ELSE AfterAnalysis(history, parsed, d.value, analyze_missing_info(ar), qr,
                       Append(calls, "analyze_missing_info"))

\* lines 247-250: the turn from the extractor's outcome on
AfterParse(history, parsed, d, ar, qr, calls) ==
    IF d.raised
    THEN Turn(history, parsed, FailedResult(d.exc), calls,
              "parse_travel_details", EmptyDict, NoAnalysis, NoDecision, <<>>)
    ELSE AfterAnalysis(history, parsed, d.value, analyze_missing_info(ar), qr,
                       Append(calls, "analyze_missing_info"))

validate_and_get_followup(history, parsed, pr, ar, qr) ==
    AfterParse(history, parsed, parse_travel_details(pr), ar, qr,
               <<"parse_travel_details">>)

(***************************************************************************)
(* ConversationManager.reset                                               *)
(***************************************************************************)
\* faulty variant: the stored details survive a reset
ResetState_keepsDetails == [history |-> <<>>, parsed |-> parsed_details]

ResetState == [history |-> <<>>, parsed |-> EmptyDict]

(***************************************************************************)
(* Inputs: what the backend answers to the three calls of a turn, and the  *)
(* arguments of the direct calls.                                          *)
(***************************************************************************)
Tokyo == JStr(<<"Tokyo">>)

Temples == JList(<<<<"temples">>>>)

ErrorReply == BackendReturns(ErrorDict(<<"Empty response from API">>))

\* replies to the extractor's prompt: the five fields, each a value or null
ParseReplies ==
    {BackendRaises, ErrorReply} \cup
    {BackendReturns(Dict(Tokyo, du, i, b, JNull, Absent)) :
        du \in {JNull, JInt(0), JInt(5)},
        i \in {JNull, JList(<<>>), Temples},
        b \in {JNull, JStr(<<"low">>)}} \cup
    {BackendReturns(Dict(lo, du, Temples, JNull, JNull, Absent)) :
        lo \in {JNull, JStr(<<>>)},
        du \in {JNull, JInt(5)}}

\* replies to the analyzer's prompt
AnalysisReplies ==
    {BackendRaises,
     BackendReturns(Analysis(JStr(<<"Empty response from API">>),
                             Absent, Absent, Absent, Absent)),
     BackendReturns(Analysis(Absent, JList(<<<<"location">>>>),
                             JList(<<<<"duration">>, <<"interests">>>>),
                             JList(<<>>), JInt(50))),
     BackendReturns(Analysis(Absent, Absent, JList(<<>>), Absent, JInt(90)))}

\* replies to the composer's prompt
FollowupReplies ==
    {BackendRaises,
     BackendReturns(QuestionDict(JStr(<<"Empty response from API">>), Absent)),
     BackendReturns(QuestionDict(Absent, JStr(<<" ", "How many days?", " ">>))),
     BackendReturns(QuestionDict(Absent, JStr(<<" ">>)))}

\* stands for the reply of a call the turn does not make
NoReply == BackendRaises

\* arguments of add_to_history
HistoryArgs ==
    {[field |-> JStr(<<"location">>), value |-> JStr(<<"Paris">>)]}

\* arguments of a direct call of the gate
GateDetails ==
    {Dict(lo, du, i, b, t, Absent) :
        lo \in {Absent, JNull, JStr(<<>>), Tokyo},
        du \in {Absent, JNull, JInt(0), JInt(5)},
        i \in {Absent, JNull, JList(<<>>), Temples},
        b \in {Absent, JStr(<<"low">>)},
        t \in {Absent, JStr(<<"solo">>)}}

GateAnalyses ==
    {FallbackAnalysis,
     Analysis(Absent, JList(<<>>), JList(<<>>), JList(<<>>), JInt(100)),
     Analysis(Absent, JList(<<<<"location">>>>),
              JList(<<<<"duration">>, <<"interests">>>>), JList(<<>>), JInt(50))}

(***************************************************************************)
(* CoordinatorAgent: its own extraction and the planning pipeline          *)
(***************************************************************************)
\* CoordinatorAgent.parse_travel_details on the dict the backend call returned
CoordinatorDetails(details) ==
    IF Has(details, "error") \/ ~Has(details, "location")
    THEN Dict(SetDefault(details, "location", JStr(<<"Unknown">>)),
              SetDefault(details, "duration", JInt(3)),
              SetDefault(details, "interests", JList(<<>>)),
              details.budget, details.travel_type,
              SetDefault(details, "error",
                         JStr(<<"Failed to extract location from request">>)))
    ELSE details

\* the responses of three Mocks in the sub-agents' place: each with an error
\* key or not
SubResponses ==
    [attractions : {"ok", "error"}, itinerary : {"ok", "error"},
     transport : {"ok", "error"}]

\* the errors list plan_trip collects
PlanErrors(sub) ==
    (IF sub.attractions = "error" THEN <<"Could not fetch attractions">> ELSE <<>>)
    \o (IF sub.itinerary = "error" THEN <<"Could not create itinerary">> ELSE <<>>)
    \o (IF sub.transport = "error" THEN <<"Could not fetch transportation">> ELSE <<>>)

\* the location, duration and interests plan_trip passes to the sub-agents
Given(lo, du, i) == [location |-> lo, duration |-> du, interests |-> i]

\* stands for the arguments of sub-agent calls that are not made
NothingGiven == Given(Absent, Absent, Absent)

\* what a sub-agent method does with its backend's reply: "raises", or a
\* response "error" (with an error key) or "ok" (without one)
SubOutcome(result) ==
    IF result.raised \/ ~IsDict(result.value) THEN "raises"
    ELSE IF Has(result.value, "error") THEN "error"
    ELSE "ok"

find_attractions(reply) == SubOutcome(BaseAgentCall(reply, AttractionKeywords))

create_itinerary(reply) == SubOutcome(BaseAgentCall(reply, LogisticKeywords))

get_transportation_suggestions(reply) ==
    SubOutcome(BaseAgentCall(reply, LogisticKeywords))

\* what BaseAgent.call_openai_api answers a sub-agent
SubReplies ==
    {RealReturns(EmptyDict), RealReturns(ErrorDict(<<"Connection failed">>))}

\* the responses of the program's own sub-agents
RealSubResponses ==
    {[attractions |-> find_attractions(ra),
      itinerary |-> create_itinerary(ri),
      transport |-> get_transportation_suggestions(rt)] :
        ra \in SubReplies, ri \in SubReplies, rt \in SubReplies}

\* the sub-agent calls plan_trip makes, in order, up to one that raises; the
\* itinerary call is recorded with the attractions response it is given
SubCalls(sub) ==
    <<[op |-> "find_attractions", attractions |-> "none"]>>
    \o (IF sub.attractions = "raises" THEN <<>>
        ELSE <<[op |-> "create_itinerary", attractions |-> sub.attractions]>>
             \o (IF sub.itinerary = "raises" THEN <<>>
                 ELSE <<[op |-> "get_transportation_suggestions",
                         attractions |-> "none"]>>))

SubRaised(sub) == Len(SubCalls(sub)) < 3 \/ sub.transport = "raises"

\* a failure forgets the last plan's details
PlanFailed_forgetsContext(travel_context, msg) ==
    [travel_context |-> EmptyDict,
     plan_data |-> [success |-> FALSE, error |-> msg],
     given |-> NothingGiven, calls |-> <<>>]

PlanFailed(travel_context, msg) ==
    [travel_context |-> travel_context,
     plan_data |-> [success |-> FALSE, error |-> msg],
     given |-> NothingGiven, calls |-> <<>>]

\* CoordinatorAgent.plan_trip: the plan data returned, travel_context as it
\* is afterwards, what the sub-agents were given and the calls made to them
plan_trip(travel_context, reply, sub) ==
    LET r == BaseAgentCall(reply, CoordinatorKeywords)
    IN  IF r.raised
        THEN PlanFailed(travel_context,
                 <<"An error occurred while planning your trip: ">> \o r.exc)
        ELSE IF ~IsDict(r.value)
        THEN PlanFailed(travel_context,
                 <<"An error occurred while planning your trip: ",
                   "object does not support item assignment">>)
        ELSE IF Has(CoordinatorDetails(r.value), "error")
        THEN PlanFailed(travel_context,
                 <<"I had trouble understanding your request. Could you please provide: location, duration, and interests?">>)
        ELSE [travel_context |-> CoordinatorDetails(r.value),
              plan_data |->
                  IF SubRaised(sub)
                  THEN [success |-> FALSE,
                        error |-> <<"An error occurred while planning your trip: ",
                                    "sub-agent call failed">>]
                  ELSE [success |-> TRUE,
                        details |-> CoordinatorDetails(r.value),
                        errors |-> PlanErrors(sub)],
              given |-> Given(GetOr(CoordinatorDetails(r.value), "location",
                                    JStr(<<"Unknown">>)),
                              GetOr(CoordinatorDetails(r.value), "duration",
                                    JInt(3)),
                              GetOr(CoordinatorDetails(r.value), "interests",
                                    JList(<<>>))),
              calls |-> SubCalls(sub)]

\* stands for the plan data of a turn that plans nothing
NoPlan == [success |-> FALSE, error |-> <<>>]

(***************************************************************************)
(* main.py: the chat page                                                  *)
(***************************************************************************)
Message(role, content) == [role |-> role, content |-> content]

\* the message the page starts with
Greeting == Message("assistant", <<"Hello! I'm Roamer, your AI travel planner.">>)

\* the message the chat starts with after "Clear Chat History"
StartChatting == Message("assistant", <<"Let's start chatting!">>)

\* " ".join(l)
RECURSIVE Join(_)
Join(l) ==
    IF l = <<>> THEN <<>>
    ELSE IF Len(l) = 1 THEN l[1]
    ELSE l[1] \o <<" ">> \o Join(Tail(l))

\* st.session_state when the page is first run
InitialSessionState ==
    [messages |-> <<Greeting>>,
     conversation_context |-> <<>>,
     travel_context |-> EmptyDict]

\* what the page has and returns after a chat input: the manager's and the
\* page's state, the text given to the manager and what came back
Page(t, ss, combined_input, planned, plan_data, given) ==
    [history |-> t.history, parsed |-> t.parsed, session_state |-> ss,
     combined_input |-> combined_input, validation_result |-> t.result,
     planned |-> planned, plan_data |-> plan_data, given |-> given]

\* lines 116-142: the page from the manager's result on
\* (the pictographs the page puts before its texts are left out)
AfterValidation(t, ss, combined_input, cr, sub) ==
    IF t.result.needs_more_info
    THEN Page(t,
              [ss EXCEPT !.messages = Append(@, Message("assistant",
                   IF "followup_question" \in DOMAIN t.result
                   THEN t.result.followup_question
                   ELSE <<"Could you provide more details?">>))],
              combined_input, FALSE, NoPlan, NothingGiven)
    ELSE IF t.result.success
    THEN LET p == plan_trip(ss.travel_context, cr, sub)
         IN  Page(t,
                  [ss EXCEPT !.conversation_context = <<>>,
                             !.travel_context = p.travel_context,
                             !.messages = Append(@, Message("assistant",
                                 IF p.plan_data.success
                                 THEN <<"Trip plan generated successfully!">>
                                 ELSE <<"Error: ">> \o p.plan_data.error))],
                  combined_input, TRUE, p.plan_data, p.given)
    ELSE Page(t,
              [ss EXCEPT !.messages = Append(@, Message("assistant",
                   IF "error" \in DOMAIN t.result THEN t.result.error
                   ELSE <<"An error occurred">>))],
              combined_input, FALSE, NoPlan, NothingGiven)

\* lines 99-142: the page's handling of one chat input
chat_input(history, parsed, ss, prompt, pr, ar, qr, cr, sub) ==
    LET ss1 == [ss EXCEPT !.messages = Append(@, Message("user", prompt)),
                          !.conversation_context = Append(@, prompt)]
    IN  AfterValidation(validate_and_get_followup(history, parsed, pr, ar, qr),
                        ss1, Join(ss1.conversation_context), cr, sub)

\* lines 72-74: the "Clear Chat History" button
clear_chat(ss) == [ss EXCEPT !.messages = <<StartChatting>>]

\* a ConversationManager as __init__ leaves it
NewManager == [history |-> <<>>, parsed |-> EmptyDict]

(***************************************************************************)
(* The session: state after __init__, and one action per public operation  *)
(***************************************************************************)
Init ==
    /\ conversation_history = <<>>
    /\ parsed_details = EmptyDict
    /\ session_state = InitialSessionState
    /\ second_manager = NewManager
    /\ call = [op |-> "init"]

\* the replies a turn consumes: a call that is not reached has no reply
AnalysisRepliesAfter(d) == IF d.raised THEN {NoReply} ELSE AnalysisReplies

FollowupRepliesAfter(d, a) ==
    IF /\ ~d.raised
       /\ ~a.raised
       /\ ~should_continue_planning(d.value, a.value).proceed
       /\ ComposerCalls(a.value)
    THEN FollowupReplies
    ELSE {NoReply}

\* the session as it is when an operation is called
Before == [history |-> conversation_history, parsed |-> parsed_details]

StepWith(pr, ar, qr) ==
    \E t \in {validate_and_get_followup(conversation_history, parsed_details,
                                        pr, ar, qr)} :
      /\ Len(t.history) <= MaxHistory
      /\ conversation_history' = t.history
      /\ parsed_details' = t.parsed
      /\ call' = [op |-> "validate_and_get_followup", before |-> Before,
                  result |-> t.result, calls |-> t.calls, raised |-> t.raised,
                  details |-> t.details, analysis |-> t.analysis,
                  decision |-> t.decision, followup |-> t.followup]
      /\ UNCHANGED <<session_state, second_manager>>

Step ==
    \E pr \in ParseReplies :
      \E d \in {parse_travel_details(pr)} :
        \E ar \in AnalysisRepliesAfter(d) :
          \E a \in {analyze_missing_info(ar)} :
            \E qr \in FollowupRepliesAfter(d, a) : StepWith(pr, ar, qr)

AddToHistory ==
    \E x \in HistoryArgs :
      /\ Len(conversation_history) < MaxHistory
      /\ conversation_history' = add_to_history(conversation_history, x.field, x.value)
      /\ call' = [op |-> "add_to_history", before |-> Before,
                  field |-> x.field, value |-> x.value]
      /\ UNCHANGED <<parsed_details, session_state, second_manager>>

Reset ==
    /\ conversation_history' = ResetState.history
    /\ parsed_details' = ResetState.parsed
    /\ call' = [op |-> "reset", before |-> Before]
    /\ UNCHANGED <<session_state, second_manager>>

Next == Step \/ AddToHistory \/ Reset

Spec == Init /\ [][Next]_vars

(***************************************************************************)
(* The gate on its own: direct calls of should_continue_planning           *)
(***************************************************************************)
GateCall ==
    \E parsed \in GateDetails, analysis \in GateAnalyses :
      /\ call' = [op |-> "should_continue_planning",
                  parsed |-> parsed, analysis |-> analysis,
                  result |-> should_continue_planning(parsed, analysis)]
      /\ UNCHANGED <<conversation_history, parsed_details, session_state,
                   second_manager>>

NextGate == GateCall

SpecGate == Init /\ [][NextGate]_vars

(***************************************************************************)
(* The extractor called on its own, over every shape of backend reply      *)
(***************************************************************************)
\* replies to the extractor's prompt: a Mock raising, the method of BaseAgent
\* itself, JSON that is not an object, and dicts with each key there, null
\* or not there
ExtractorReplies ==
    {BackendRaises,
     RealReturns(Dict(Tokyo, JInt(5), Temples, JNull, JNull, Absent)),
     BackendReturns(JList(<<>>)),
     BackendReturns(JNull)} \cup
    {BackendReturns(Dict(lo, du, i, b, t, e)) :
        lo \in {Absent, JNull, JStr(<<>>), Tokyo},
        du \in {Absent, JNull, JInt(0), JInt(5)},
        i \in {Absent, JNull, JList(<<>>), Temples},
        b \in {JNull, JStr(<<"low">>)},
        t \in {Absent, JStr(<<"solo">>)},
        e \in {Absent, JNull, JStr(<<"Empty response from API">>)}}

ParseCall ==
    \E reply \in ExtractorReplies :
      /\ call' = [op |-> "parse_travel_details", reply |-> reply,
                  result |-> parse_travel_details(reply)]
      /\ UNCHANGED <<conversation_history, parsed_details, session_state,
                   second_manager>>

NextParse == ParseCall

SpecParse == Init /\ [][NextParse]_vars

(***************************************************************************)
(* The composer called on its own                                          *)
(***************************************************************************)
\* replies to the composer's prompt: a Mock raising, the method of BaseAgent
\* itself, JSON that is not an object, and dicts with a question that is not
\* there, null, empty, blank or worded
ComposerReplies ==
    {BackendRaises,
     RealReturns(QuestionDict(Absent, JStr(<<"How many days?">>))),
     BackendReturns(JList(<<>>))} \cup
    {BackendReturns(QuestionDict(e, q)) :
        e \in {Absent, JStr(<<"Empty response from API">>)},
        q \in {Absent, JNull, JStr(<<>>), JStr(<<" ">>), JStr(<<" ", " ">>),
               JStr(<<"How many days?">>),
               JStr(<<" ", "How many days?", " ">>)}}

\* the parsed_details argument of a direct call of the composer
ComposerDetails ==
    {EmptyDict,
     Dict(Tokyo, Absent, Absent, Absent, Absent, Absent),
     Dict(Tokyo, JInt(5), Absent, Absent, Absent, Absent)}

\* the analysis argument of a direct call of the composer
ComposerAnalyses ==
    {Analysis(Absent, p, m, JList(<<>>), JInt(50)) :
        p \in {Absent, JList(<<>>), JList(<<<<"location">>>>)},
        m \in {Absent, JList(<<>>), JList(<<<<"interests">>>>),
               JList(<<<<"duration">>, <<"interests">>>>)}}

ComposeCall ==
    \E parsed \in ComposerDetails, analysis \in ComposerAnalyses,
       reply \in ComposerReplies :
      /\ call' = [op |-> "generate_followup_question", parsed |-> parsed,
                  analysis |-> analysis, reply |-> reply,
                  result |-> generate_followup_question(
                                 parsed, analysis, conversation_history, reply)]
      /\ UNCHANGED <<conversation_history, parsed_details, session_state,
                   second_manager>>

NextCompose == ComposeCall

SpecCompose == Init /\ [][NextCompose]_vars

(***************************************************************************)
(* The analyzer called on its own, over every shape of backend reply       *)
(***************************************************************************)
\* replies to the analyzer's prompt: a Mock raising, the method of BaseAgent
\* itself, JSON that is not an object, and dicts with each key there or not
\* (the confidence is whatever number the backend writes)
AnalyzerReplies ==
    {BackendRaises,
     RealReturns(Analysis(Absent, JList(<<>>), JList(<<>>), JList(<<>>), JInt(90))),
     BackendReturns(JList(<<>>)),
     BackendReturns(JNull)} \cup
    {BackendReturns(Analysis(e, p, m, u, c)) :
        e \in {Absent, JNull, JStr(<<"Empty response from API">>)},
        p \in {Absent, JList(<<>>), JList(<<<<"location">>>>)},
        m \in {Absent, JNull, JList(<<>>), JList(<<<<"duration">>, <<"interests">>>>)},
        u \in {Absent, JList(<<>>)},
        c \in {Absent, JInt(0), JInt(50), JInt(150)}}

AnalyzeCall ==
    \E reply \in AnalyzerReplies :
      /\ call' = [op |-> "analyze_missing_info", reply |-> reply,
                  result |-> analyze_missing_info(reply)]
      /\ UNCHANGED <<conversation_history, parsed_details, session_state,
                   second_manager>>

NextAnalyze == AnalyzeCall

SpecAnalyze == Init /\ [][NextAnalyze]_vars

(***************************************************************************)
(* The chat page of main.py: chat inputs and the "Clear Chat History"      *)
(* button.  The page holds one ConversationManager and one                 *)
(* CoordinatorAgent, whose backend calls are answered by the method of     *)
(* BaseAgent itself.                                                       *)
(***************************************************************************)
\* what the user types
Utterances == {<<"Tokyo">>, <<"5 days">>, <<"temples">>}

PageExtractorReplies ==
    {RealReturns(Dict(Tokyo, JInt(5), Temples, JNull, JNull, Absent)),
     RealReturns(Dict(Tokyo, JNull, JNull, JNull, JNull, Absent)),
     RealReturns(ErrorDict(<<"Empty response from API">>))}

PageAnalyzerReplies ==
    {RealReturns(Analysis(Absent, JList(<<>>), JList(<<>>), JList(<<>>), JInt(90))),
     RealReturns(Analysis(Absent, JList(<<<<"location">>>>),
                          JList(<<<<"duration">>, <<"interests">>>>),
                          JList(<<>>), JInt(50)))}

PageComposerReplies ==
    {RealReturns(QuestionDict(Absent, JStr(<<"How many days?">>))),
     RealReturns(QuestionDict(JStr(<<"Empty response from API">>), Absent))}

\* replies to the coordinator's extraction prompt
PlannerReplies ==
    {RealReturns(Dict(Tokyo, JInt(5), Temples, Absent, Absent, Absent)),
     RealReturns(Dict(Tokyo, Absent, Absent, Absent, Absent, Absent)),
     RealReturns(Dict(JStr(<<"Kyoto">>), JInt(2), JNull, Absent, Absent, Absent)),
     RealReturns(Dict(Absent, JInt(5), Temples, Absent, Absent, Absent)),
     RealReturns(ErrorDict(<<"Empty response from API">>))}

\* the replies a chat input consumes: a call that is not reached has no reply
PageAnalyzerRepliesAfter(d) ==
    IF d.raised THEN {NoReply} ELSE PageAnalyzerReplies

PageComposerRepliesAfter(d, a) ==
    IF d.raised \/ a.raised THEN {NoReply}
    ELSE IF should_continue_planning(d.value, a.value).proceed THEN {NoReply}
    ELSE PageComposerReplies

Plans(d, a) ==
    ~d.raised /\ ~a.raised /\ should_continue_planning(d.value, a.value).proceed

PlannerRepliesAfter(d, a) == IF Plans(d, a) THEN PlannerReplies ELSE {NoReply}

SubResponsesAfter(d, a, responses) ==
    IF Plans(d, a) THEN responses
    ELSE {[attractions |-> "ok", itinerary |-> "ok", transport |-> "ok"]}

\* the manager and the page as they are when the page handles an event
BeforePage ==
    [history |-> conversation_history, parsed |-> parsed_details,
     session_state |-> session_state]

ChatInputWith(prompt, pr, ar, qr, cr, sub) ==
    \E g \in {chat_input(conversation_history, parsed_details, session_state,
                         prompt, pr, ar, qr, cr, sub)} :
      /\ Len(g.history) <= MaxHistory
      /\ Len(g.session_state.messages) <= MaxMessages
      /\ Len(session_state.conversation_context) < MaxContext
      /\ conversation_history' = g.history
      /\ parsed_details' = g.parsed
      /\ session_state' = g.session_state
      /\ call' = [op |-> "chat_input", before |-> BeforePage,
                  prompt |-> prompt, extraction |-> pr,
                  combined_input |-> g.combined_input,
                  validation_result |-> g.validation_result,
                  planned |-> g.planned, plan_data |-> g.plan_data,
                  given |-> g.given]
      /\ UNCHANGED second_manager

ChatInput ==
    \E prompt \in Utterances, pr \in PageExtractorReplies :
      \E d \in {parse_travel_details(pr)} :
        \E ar \in PageAnalyzerRepliesAfter(d) :
          \E a \in {analyze_missing_info(ar)} :
            \E qr \in PageComposerRepliesAfter(d, a),
               cr \in PlannerRepliesAfter(d, a),
               sub \in SubResponsesAfter(d, a, RealSubResponses) :
              ChatInputWith(prompt, pr, ar, qr, cr, sub)

ClearChat ==
    /\ session_state' = clear_chat(session_state)
    /\ call' = [op |-> "clear_chat", before |-> BeforePage]
    /\ UNCHANGED <<conversation_history, parsed_details, second_manager>>

NextPage == ChatInput \/ ClearChat

SpecPage == Init /\ [][NextPage]_vars

(***************************************************************************)
(* Two ConversationManager instances (two browser sessions of main.py),    *)
(* whose operations interleave.  The first is conversation_history and     *)
(* parsed_details, the other is second_manager.                            *)
(***************************************************************************)
\* faulty variant: the two fields are attributes of the class, which every
\* instance shares
Assigned_classAttributes(first, second, i, new) ==
    [first |-> new, second |-> new]

\* self.conversation_history = ... and self.parsed_details = ... in an
\* operation of instance i: the fields are attributes of that instance
Assigned(first, second, i, new) ==
    IF i = 1 THEN [first |-> new, second |-> second]
    ELSE [first |-> first, second |-> new]

\* the replies the two instances get
ManagersParseReplies ==
    {BackendReturns(Dict(Tokyo, JInt(5), Temples, JStr(<<"low">>), JNull, Absent)),
     BackendReturns(Dict(Tokyo, JInt(5), Temples, JNull, JNull, Absent)),
     BackendReturns(Dict(Tokyo, JNull, JNull, JNull, JNull, Absent))}

ManagersAnalysisReplies ==
    {BackendReturns(Analysis(Absent, JList(<<<<"location">>>>),
                             JList(<<<<"duration">>, <<"interests">>>>),
                             JList(<<>>), JInt(50)))}

ManagersFollowupReplies ==
    {BackendReturns(QuestionDict(Absent, JStr(<<"How many days?">>))),
     BackendRaises}

FirstManager == [history |-> conversation_history, parsed |-> parsed_details]

Manager(i) == IF i = 1 THEN FirstManager ELSE second_manager

\* the two instances as they are when an operation is called
BeforeBoth == [first |-> FirstManager, second |-> second_manager]

\* the two instances become as in the pair m
Become(m) ==
    /\ conversation_history' = m.first.history
    /\ parsed_details' = m.first.parsed
    /\ second_manager' = m.second
    /\ UNCHANGED session_state

StepOn ==
    \E i \in {1, 2}, pr \in ManagersParseReplies,
       ar \in ManagersAnalysisReplies, qr \in ManagersFollowupReplies :
      \E t \in {validate_and_get_followup(Manager(i).history, Manager(i).parsed,
                                          pr, ar, qr)} :
        /\ Len(t.history) <= MaxHistory
        /\ Become(Assigned(FirstManager, second_manager, i,
                           [history |-> t.history, parsed |-> t.parsed]))
        /\ call' = [op |-> "validate_and_get_followup", on |-> i,
                    before |-> BeforeBoth, result |-> t.result]

AddToHistoryOn ==
    \E i \in {1, 2}, x \in HistoryArgs :
      /\ Len(Manager(i).history) < MaxHistory
      /\ Become(Assigned(FirstManager, second_manager, i,
                         [history |-> add_to_history(Manager(i).history,
                                                     x.field, x.value),
                          parsed |-> Manager(i).parsed]))
      /\ call' = [op |-> "add_to_history", on |-> i, before |-> BeforeBoth]

ResetOn ==
    \E i \in {1, 2} :
      /\ Become(Assigned(FirstManager, second_manager, i, NewManager))
      /\ call' = [op |-> "reset", on |-> i, before |-> BeforeBoth]

\* the same turn in both instances: the extractor, the analyzer and the
\* composer give both the same outputs
StepBoth ==
    \E pr \in ManagersParseReplies, ar \in ManagersAnalysisReplies,
       qr \in ManagersFollowupReplies :
      \E t1 \in {validate_and_get_followup(conversation_history, parsed_details,
                                           pr, ar, qr)},
         t2 \in {validate_and_get_followup(second_manager.history,
                                           second_manager.parsed, pr, ar, qr)} :
        /\ Len(t1.history) <= MaxHistory
        /\ Len(t2.history) <= MaxHistory
        /\ Become([first |-> [history |-> t1.history, parsed |-> t1.parsed],
                   second |-> [history |-> t2.history, parsed |-> t2.parsed]])
        /\ call' = [op |-> "both", before |-> BeforeBoth,
                    first |-> t1.result, second |-> t2.result]

NextManagers == StepOn \/ AddToHistoryOn \/ ResetOn \/ StepBoth

SpecManagers == Init /\ [][NextManagers]_vars

(***************************************************************************)
(* The chat page with the manager's call_openai_api replaced by a Mock, as *)
(* the test suite replaces it, so that a turn can return Ready and the     *)
(* page goes on to planning, and with Mocks in the sub-agents' place.  The *)
(* coordinator's own backend call is answered by the method of BaseAgent   *)
(* itself.                                                                 *)
(***************************************************************************)
PatchedExtractorReplies ==
    {BackendReturns(Dict(Tokyo, JInt(5), Temples, JNull, JNull, Absent)),
     BackendReturns(Dict(Tokyo, JNull, JNull, JNull, JNull, Absent))}

PatchedAnalyzerReplies ==
    {BackendReturns(Analysis(Absent, JList(<<<<"location">>>>),
                             JList(<<<<"duration">>, <<"interests">>>>),
                             JList(<<>>), JInt(50)))}

PatchedComposerReplies ==
    {BackendReturns(QuestionDict(Absent, JStr(<<"How many days?">>)))}

\* what the user types
PatchedUtterances == {<<"Tokyo">>, <<"5 days, temples">>}

\* the sub-agents' responses: all three fine, or the first with an error key
PatchedSubResponses ==
    {sub \in SubResponses : sub.itinerary = "ok" /\ sub.transport = "ok"}

ChatInputPatched ==
    \E prompt \in PatchedUtterances, pr \in PatchedExtractorReplies,
       ar \in PatchedAnalyzerReplies, qr \in PatchedComposerReplies :
      \E d \in {parse_travel_details(pr)}, a \in {analyze_missing_info(ar)} :
        \E cr \in PlannerRepliesAfter(d, a),
           sub \in SubResponsesAfter(d, a, PatchedSubResponses) :
          ChatInputWith(prompt, pr, ar, qr, cr, sub)

NextPagePatched == ChatInputPatched \/ ClearChat

SpecPagePatched == Init /\ [][NextPagePatched]_vars

(***************************************************************************)
(* BaseAgent.call_openai_api itself: the client's reply, unwrapped and     *)
(* parsed.  A reply's text is a sequence of chunks: " " is whitespace,     *)
(* Fence a run of backticks, "json" the language tag, anything else a      *)
(* piece of payload.                                                       *)
(***************************************************************************)
MaxPayload == 1

\* the three backticks that open and close a code block
Fence == "fence"

ObjectText == "{location: Tokyo}"

ErrorObjectText == "{error: no location}"

ListText == "[temples]"

PlainText == "not valid json"

\* the backticks stripped from the left
RECURSIVE LStripTicks(_)
LStripTicks(s) == IF s # <<>> /\ Head(s) = Fence THEN LStripTicks(Tail(s)) ELSE s

\* the backticks stripped from the right
RECURSIVE RStripTicks(_)
RStripTicks(s) ==
    IF s # <<>> /\ s[Len(s)] = Fence
    THEN RStripTicks(SubSeq(s, 1, Len(s) - 1)) ELSE s

clean_response(response) ==
    LET cleaned_text == Strip(response)
    IN  IF cleaned_text # <<>> /\ Head(cleaned_text) = Fence
        THEN LET unfenced == Strip(RStripTicks(LStripTicks(cleaned_text)))
             IN  IF unfenced # <<>> /\ Head(unfenced) = "json"
                 THEN Strip(LStrip(Tail(unfenced)))
                 ELSE Strip(unfenced)
        ELSE Strip(cleaned_text)

\* json.loads: one JSON value and nothing else, or json.JSONDecodeError
json_loads(text) ==
    IF Len(text) # 1 THEN Raise(<<"Expecting value">>)
    ELSE IF text[1] = ObjectText
    THEN Return(Dict(Tokyo, Absent, Absent, Absent, Absent, Absent))
    ELSE IF text[1] = ErrorObjectText
    THEN Return(ErrorDict(<<"no location">>))
    ELSE IF text[1] = ListText THEN Return(Temples)
    ELSE Raise(<<"Expecting value">>)

\* what chat.completions.create does: raise, or answer with a content
ClientRaises == [raises |-> TRUE, content |-> JNull]

ClientAnswers(content) == [raises |-> FALSE, content |-> content]

\* the body of the method, which is one try block
ApiResponse(client) ==
    IF client.raises THEN ErrorDict(<<"Connection failed">>)
    ELSE IF ~Truthy(client.content) \/ Strip(client.content.s) = <<>>
    THEN ErrorDict(<<"Empty response from API">>)
    ELSE LET parsed == json_loads(clean_response(client.content.s))
         IN  IF parsed.raised
             THEN ErrorDict(<<"Invalid JSON from API: ">> \o parsed.exc)
             ELSE parsed.value

\* the keyword sets of the calls the program makes
CallerKeywords ==
    {ManagerKeywords, CoordinatorKeywords, AttractionKeywords,
     LogisticKeywords}

RECURSIVE SeqsUpTo(_, _)
SeqsUpTo(S, n) ==
    IF n = 0 THEN {<<>>}
    ELSE LET shorter == SeqsUpTo(S, n - 1)
         IN  shorter \cup {Append(s, x) : s \in shorter, x \in S}

Leads ==
    {<<>>, <<" ">>, <<Fence>>, <<Fence, "json">>, <<Fence, "json", " ">>,
     <<" ", Fence, " ">>, <<"json">>}

Payloads ==
    SeqsUpTo({ObjectText, ErrorObjectText, ListText, PlainText}, MaxPayload)

Trails == {<<>>, <<" ">>, <<Fence>>, <<" ", Fence>>, <<" ", Fence, " ">>}

ClientOutcomes ==
    {ClientRaises, ClientAnswers(JNull)}
        \cup {ClientAnswers(JStr(lead \o payload \o trail)) :
                lead \in Leads, payload \in Payloads, trail \in Trails}

ApiCall ==
    \E client \in ClientOutcomes, keywords \in CallerKeywords :
        /\ call' = [op |-> "call_openai_api", client |-> client,
                    keywords |-> keywords,
                    result |-> BaseAgentCall(RealReturns(ApiResponse(client)),
                                             keywords)]
        /\ UNCHANGED <<conversation_history, parsed_details, session_state,
                       second_manager>>

SpecBackend == Init /\ [][ApiCall]_vars

(***************************************************************************)
(* CoordinatorAgent.plan_trip called directly, with the program's own      *)
(* sub-agents or with Mocks in their place as in the test suite.           *)
(***************************************************************************)
\* what the coordinator's backend call answers: a Mock that raises, and the
\* method of BaseAgent answering with field sets, an error, or a JSON list
PlanReplies ==
    PlannerReplies \cup {BackendRaises, RealReturns(Temples)}

\* the coordinator's parse_travel_details returned a dict
PlanParseReturned(reply) ==
    /\ ~BaseAgentCall(reply, CoordinatorKeywords).raised
    /\ IsDict(reply.body)

PlanSubResponses(reply, mocked) ==
    IF PlanParseReturned(reply) /\ ~Has(CoordinatorDetails(reply.body), "error")
    THEN IF mocked THEN SubResponses ELSE RealSubResponses
    ELSE {[attractions |-> "ok", itinerary |-> "ok", transport |-> "ok"]}

PlanTrip ==
    \E reply \in PlanReplies, mocked \in BOOLEAN :
      \E sub \in PlanSubResponses(reply, mocked) :
        \E p \in {plan_trip(session_state.travel_context, reply, sub)} :
          /\ session_state' =
                 [session_state EXCEPT !.travel_context = p.travel_context]
          /\ call' = [op |-> "plan_trip",
                      before |-> session_state.travel_context,
                      reply |-> reply, mocked |-> mocked, sub |-> sub,
                      plan_data |-> p.plan_data, given |-> p.given,
                      calls |-> p.calls]
          /\ UNCHANGED <<conversation_history, parsed_details, second_manager>>

SpecPlan == Init /\ [][PlanTrip]_vars

(***************************************************************************)
(* The session with the four operations that only compute called on it     *)
(* directly, between the turns.                                            *)
(***************************************************************************)
PureExtractorReplies ==
    {ErrorReply, BackendReturns(Dict(Tokyo, JInt(5), Temples, JNull, JNull, Absent))}

PureAnalyzerReplies ==
    {BackendRaises,
     BackendReturns(Analysis(Absent, JList(<<<<"location">>>>),
                             JList(<<<<"interests">>>>), JList(<<>>), JInt(50)))}

PureComposerReplies ==
    {BackendRaises,
     BackendReturns(QuestionDict(Absent, JStr(<<"How many days?">>)))}

PureAnalyses ==
    {Analysis(Absent, JList(<<>>), m, JList(<<>>), JInt(50)) :
        m \in {JList(<<>>), JList(<<<<"interests">>>>)}}

\* none of the four assigns conversation_history or parsed_details
PureCallOf(op, result) ==
    /\ call' = [op |-> op, before |-> Before, result |-> result]
    /\ UNCHANGED <<conversation_history, parsed_details, session_state,
                   second_manager>>

PureCall ==
    \/ \E reply \in PureExtractorReplies :
         PureCallOf("parse_travel_details", parse_travel_details(reply))
    \/ \E reply \in PureAnalyzerReplies :
         PureCallOf("analyze_missing_info", analyze_missing_info(reply))
    \/ \E analysis \in PureAnalyses :
         PureCallOf("should_continue_planning",
                    should_continue_planning(parsed_details, analysis))
    \/ \E analysis \in PureAnalyses, reply \in PureComposerReplies :
         PureCallOf("generate_followup_question",
                    generate_followup_question(parsed_details, analysis,
                                               conversation_history, reply))

NextOperations == Step \/ AddToHistory \/ Reset \/ PureCall

SpecOperations == Init /\ [][NextOperations]_vars

(***************************************************************************)
(* Properties                                                              *)
(***************************************************************************)
IsStep == call.op = "validate_and_get_followup"

IsGateCall == call.op = "should_continue_planning"

\* the extractor returned (did not raise) in the last turn
ExtractorReturned == IsStep /\ call.raised # "parse_travel_details"

\* the gate ran in the last turn
GateRan ==
    IsStep /\ call.raised \notin {"parse_travel_details", "analyze_missing_info"}

LastEntry(h) == h[Len(h)]

\* falsy for the gate: the key is not there, or its value is None, "", 0 or []
Missing(d, k) ==
    \/ ~Has(d, k)
    \/ d[k].kind = "null"
    \/ d[k].kind = "str" /\ Len(d[k].s) = 0
    \/ d[k].kind = "int" /\ d[k].n = 0
    \/ d[k].kind = "list" /\ Len(d[k].l) = 0

\* C1: a turn in which the extractor, the analyzer or the composer raises
\* returns Failed with an error message, and leaves history and accumulated
\* exactly as they were when the turn began.
C1_FailureLeavesSession ==
    (IsStep /\ call.raised # "") =>
        /\ IsFailed(call.result)
        /\ ~call.result.success
        /\ Len(call.result.error) > 1
        /\ conversation_history = call.before.history
        /\ parsed_details = call.before.parsed

C1_Witness ==
    /\ IsStep
    /\ call.raised = "generate_followup_question"
    /\ call.before.history # <<>>
    /\ call.before.parsed # EmptyDict

\* C2: when the gate lets a turn through, accumulated becomes the extracted
\* fields and the turn returns Ready with exactly those fields and the
\* analyzer's confidence.
C2_ReadyStoresExtracted ==
    (GateRan /\ call.decision.proceed) =>
        /\ IsReady(call.result)
        /\ ~call.result.needs_more_info
        /\ parsed_details = call.details
        /\ call.result.details = call.details
        /\ KeysOf(call.result.details) = KeysOf(parsed_details)
        /\ call.result.confidence = call.analysis.confidence

C2_Witness ==
    /\ GateRan
    /\ call.decision.proceed
    /\ Has(call.details, "budget")
    /\ call.analysis.confidence = JInt(50)

\* C3: a turn that the gate refuses and that returns NeedsMoreInfo appends
\* exactly one history entry, whose field is "question" and whose value is the
\* follow-up question of the result; the result carries the analyzer's missing
\* list and confidence.
C3_HistoryHoldsAskedQuestion ==
    (GateRan /\ ~call.decision.proceed /\ IsNeedsMoreInfo(call.result)) =>
        /\ Len(conversation_history) = Len(call.before.history) + 1
        /\ SubSeq(conversation_history, 1, Len(call.before.history))
               = call.before.history
        /\ LastEntry(conversation_history).field = JStr(<<"question">>)
        /\ LastEntry(conversation_history).value
               = JStr(call.result.followup_question)
        /\ call.result.missing_fields = call.analysis.missing
        /\ call.result.confidence = call.analysis.confidence

\* C4 as stated: when the extractor reports an error (no location, or a failed
\* extraction), the turn returns Failed and does not set accumulated.
C4_ExtractorErrorFails ==
    (ExtractorReturned /\ Has(call.details, "error")) =>
        /\ IsFailed(call.result)
        /\ parsed_details = call.before.parsed

\* C4, amended: when the extractor reports an error, the turn never sets
\* accumulated and never returns Ready; it returns Failed only if the analyzer
\* or the composer raises, and otherwise NeedsMoreInfo whose details are the
\* extractor's error marker and nothing else.
C4_ExtractorErrorAsksAgain ==
    (ExtractorReturned /\ Has(call.details, "error")) =>
        /\ parsed_details = call.before.parsed
        /\ ~IsReady(call.result)
        /\ IsFailed(call.result) <=> call.raised # ""
        /\ call.raised = "" =>
              /\ IsNeedsMoreInfo(call.result)
              /\ call.result.details = call.details
              /\ KeysOf(call.result.details) = {"error"}

C4_Witness ==
    /\ ExtractorReturned
    /\ call.details = ErrorDict(<<"Location is required">>)
    /\ IsNeedsMoreInfo(call.result)
    /\ call.before.parsed # EmptyDict

\* C5: whenever location is absent or empty, the gate refuses, whatever
\* duration, interests, budget, travel_type and the analysis are.
C5_NoLocationNoProceed ==
    (IsGateCall /\ Missing(call.parsed, "location")) => ~call.result.proceed

C5_Witness ==
    /\ IsGateCall
    /\ ~Has(call.parsed, "location")
    /\ call.parsed.duration = JInt(5)
    /\ call.parsed.interests = Temples
    /\ Has(call.parsed, "budget")
    /\ ~call.result.proceed

\* the gate's answer with budget b and travel_type t in place of the call's
WithOptional(b, t) ==
    should_continue_planning(
        [call.parsed EXCEPT !.budget = b, !.travel_type = t], call.analysis)

\* C6: the gate lets through exactly the field sets with a non-empty location,
\* a non-zero duration and a non-empty interests sequence; budget and
\* travel_type, present or not, never change the decision.
C6_ProceedIffRequiredFields ==
    IsGateCall =>
        /\ call.result.proceed <=>
              /\ ~Missing(call.parsed, "location")
              /\ ~Missing(call.parsed, "duration")
              /\ ~Missing(call.parsed, "interests")
        /\ \A b \in {Absent, JNull, JStr(<<"low">>)},
              t \in {Absent, JNull, JStr(<<"solo">>)} :
              WithOptional(b, t).proceed = call.result.proceed

C6_Witness ==
    /\ IsGateCall
    /\ call.result.proceed
    /\ ~Has(call.parsed, "budget")
    /\ ~Has(call.parsed, "travel_type")

\* C7: the first failing check, in the order location, duration, interests,
\* gives the reason: the destination one when location is missing whatever else
\* is, the duration one when location is there and duration is missing (also
\* when interests are missing too), the interests one when only they are.
C7_FirstFailingCheckWins ==
    IsGateCall =>
        /\ Missing(call.parsed, "location") => call.result.reason = NeedLocation
        /\ (~Missing(call.parsed, "location") /\ Missing(call.parsed, "duration"))
              => call.result.reason = NeedDuration
        /\ (/\ ~Missing(call.parsed, "location")
            /\ ~Missing(call.parsed, "duration")
            /\ Missing(call.parsed, "interests"))
              => call.result.reason = NeedInterests

C7_Witness ==
    /\ IsGateCall
    /\ call.parsed.location = Tokyo
    /\ Missing(call.parsed, "duration")
    /\ Missing(call.parsed, "interests")
    /\ call.result.reason = NeedDuration

\* a turn has returned Ready since the session was created or reset
WasReady(s) == s.parsed # EmptyDict

\* C8 as stated: once a turn has returned Ready, no later turn (without a
\* reset in between) returns NeedsMoreInfo, appends to history or replaces
\* accumulated.
C8_ReadyIsTerminal ==
    (IsStep /\ WasReady(call.before)) =>
        /\ ~IsNeedsMoreInfo(call.result)
        /\ conversation_history = call.before.history
        /\ parsed_details = call.before.parsed

\* C8, amended: Ready is not terminal, a later turn runs the same pipeline.
\* Once a turn has returned Ready, a later turn that returns NeedsMoreInfo or
\* Failed leaves accumulated as it was, and a later turn that returns Ready
\* replaces accumulated by its own fields and leaves history as it was.
C8_AfterReady ==
    (IsStep /\ WasReady(call.before)) =>
        /\ ~IsReady(call.result) => parsed_details = call.before.parsed
        /\ IsReady(call.result) =>
              /\ parsed_details = call.result.details
              /\ conversation_history = call.before.history
        /\ IsFailed(call.result) => conversation_history = call.before.history

C8_Witness ==
    /\ IsStep
    /\ WasReady(call.before)
    /\ IsNeedsMoreInfo(call.result)
    /\ Len(conversation_history) = Len(call.before.history) + 1
    /\ parsed_details = call.before.parsed

\* the extractor returned fields (no error marker) in the last turn
ExtractionSucceeded == ExtractorReturned /\ ~Has(call.details, "error")

\* C9 as stated: after every turn in which extraction succeeds, accumulated
\* holds exactly the fields extracted in that turn.
C9_ExtractionOverwrites ==
    ExtractionSucceeded => parsed_details = call.details

\* C9, amended: after every turn that returns Ready, accumulated holds exactly
\* the fields extracted in that turn, overwritten and not merged (a field
\* stored earlier and not extracted again is gone); a turn in which extraction
\* succeeds and that does not return Ready leaves accumulated as it was.
C9_ReadyOverwrites ==
    ExtractionSucceeded =>
        /\ IsReady(call.result) =>
              /\ parsed_details = call.details
              /\ \A k \in Keys : Has(parsed_details, k) <=> Has(call.details, k)
        /\ ~IsReady(call.result) => parsed_details = call.before.parsed

C9_Witness ==
    /\ ExtractionSucceeded
    /\ IsReady(call.result)
    /\ Has(call.before.parsed, "budget")
    /\ ~Has(call.details, "budget")
    /\ ~Has(parsed_details, "budget")

\* C10: after reset, history is empty and accumulated is the empty field set,
\* whatever the session was before (a session already reset included, so a
\* second reset changes nothing).
C10_ResetClears ==
    call.op = "reset" =>
        /\ conversation_history = <<>>
        /\ parsed_details = EmptyDict
        /\ Len(conversation_history) = 0
        /\ KeysOf(parsed_details) = {}

C10_Witness ==
    /\ call.op = "reset"
    /\ Len(call.before.history) = MaxHistory
    /\ WasReady(call.before)

\* the manager's state and the page's kept utterances are all cleared
SessionCleared ==
    /\ conversation_history = <<>>
    /\ parsed_details = EmptyDict
    /\ session_state.conversation_context = <<>>

\* C11: the conversation state is reset when planning completes or when the
\* user starts over: after a plan has been produced for a Ready turn, and
\* after the user clears the chat, history and accumulated are empty and no
\* earlier utterance is carried over to the next trip's first step.
C11_ResetOnCompletionOrRestart ==
    /\ (call.op = "chat_input" /\ call.planned) => SessionCleared
    /\ call.op = "clear_chat" => SessionCleared

\* a is the beginning of b
IsPrefix(a, b) == Len(a) <= Len(b) /\ SubSeq(b, 1, Len(a)) = a

\* C12: the question history is append-only between resets: recording an
\* entry adds exactly one item at the end and leaves all earlier entries
\* unchanged (a turn records at most one entry, a direct call exactly one).
C12_HistoryAppendOnly ==
    /\ call.op = "add_to_history" =>
          /\ Len(conversation_history) = Len(call.before.history) + 1
          /\ IsPrefix(call.before.history, conversation_history)
          /\ LastEntry(conversation_history) =
                 [field |-> call.field, value |-> call.value]
    /\ IsStep =>
          /\ Len(conversation_history) - Len(call.before.history) \in {0, 1}
          /\ IsPrefix(call.before.history, conversation_history)

C12_Witness ==
    /\ call.op = "add_to_history"
    /\ Len(call.before.history) >= 1
    /\ call.before.history[1].field # call.field
    /\ conversation_history[1] = call.before.history[1]

\* the composer was called in the last turn
ComposerRan ==
    /\ GateRan
    /\ \E i \in 1..Len(call.calls) : call.calls[i] = "generate_followup_question"

\* the list of names the composer of the last turn put in its prompt
AskedBefore == already_asked(call.before.history)

\* C13: the already-asked list a step passes to the composer is computed from
\* the question history, and each of its names is a trip field that an
\* earlier follow-up question asked about.
C13_AlreadyAskedNamesTripFields ==
    (ComposerRan /\ ComposerCalls(call.analysis)) =>
        \A i \in 1..Len(AskedBefore) :
            \E f \in TripFields : AskedBefore[i] = JStr(<<f>>)

IsAnalyzeCall == call.op = "analyze_missing_info"

\* the backend call of the last direct call returned a dict
RepliedDict == ~call.reply.raises /\ call.reply.mock /\ IsDict(call.reply.body)

\* C14: when the backend's reply to the analyzer carries an error marker,
\* the analyzer returns the fallback: provided empty, missing exactly
\* location, duration, interests, unclear empty, confidence 0.
C14_AnalyzerFallback ==
    (IsAnalyzeCall /\ RepliedDict /\ Has(call.reply.body, "error")) =>
        /\ ~call.result.raised
        /\ call.result.value.provided = JList(<<>>)
        /\ call.result.value.missing =
               JList(<<<<"location">>, <<"duration">>, <<"interests">>>>)
        /\ call.result.value.unclear = JList(<<>>)
        /\ call.result.value.confidence = JInt(0)

C14_Witness ==
    /\ IsAnalyzeCall /\ RepliedDict
    /\ Has(call.reply.body, "error")
    /\ call.reply.body.confidence = JInt(50)
    /\ call.reply.body.missing = JList(<<>>)
    /\ call.result.value.confidence = JInt(0)
    /\ Len(call.result.value.missing.l) = 3

\* C15: the analyzer never fails outward: for every backend outcome it
\* returns an analysis with provided, missing, unclear and confidence set.
C15_AnalyzerNeverFails ==
    IsAnalyzeCall =>
        /\ ~call.result.raised
        /\ \A k \in {"provided", "missing", "unclear", "confidence"} :
              Has(call.result.value, k)

\* C16: every analysis the analyzer returns has the four keys provided,
\* missing, unclear and confidence; a key absent from a well-formed reply is
\* filled with its default (empty collection, confidence 0) and a key that
\* is present keeps its value.
C16_AnalysisKeysFilled ==
    (IsAnalyzeCall /\ ~call.result.raised) =>
        /\ IsDict(call.result.value)
        /\ \A k \in {"provided", "missing", "unclear", "confidence"} :
              Has(call.result.value, k)
        /\ (IsDict(call.reply.body) /\ ~Has(call.reply.body, "error")) =>
              /\ \A k \in {"provided", "missing", "unclear"} :
                    call.result.value[k] =
                        IF Has(call.reply.body, k) THEN call.reply.body[k]
                        ELSE JList(<<>>)
              /\ call.result.value.confidence =
                     IF Has(call.reply.body, "confidence")
                     THEN call.reply.body.confidence ELSE JInt(0)

C16_Witness ==
    /\ IsAnalyzeCall /\ ~call.result.raised
    /\ ~Has(call.reply.body, "error")
    /\ ~Has(call.reply.body, "unclear")
    /\ ~Has(call.reply.body, "confidence")
    /\ call.reply.body.provided = JList(<<<<"location">>>>)
    /\ call.result.value.provided = JList(<<<<"location">>>>)
    /\ call.result.value.unclear = JList(<<>>)
    /\ call.result.value.confidence = JInt(0)

IsParseCall == call.op = "parse_travel_details"

\* the last direct call of the extractor returned fields, not an error marker
ParsedFields ==
    IsParseCall /\ ~call.result.raised /\ ~Has(call.result.value, "error")

\* the last direct call of the extractor returned an error marker
ParseFailed ==
    IsParseCall /\ ~call.result.raised /\ Has(call.result.value, "error")

C18_LocationRequired ==
    (/\ IsParseCall /\ RepliedDict
     /\ ~Has(call.reply.body, "error")
     /\ call.reply.body.location \in {Absent, JNull, JStr(<<>>)}) =>
        call.result = Return(ErrorDict(<<"Location is required">>))

C18_Witness ==
    /\ IsParseCall /\ RepliedDict
    /\ ~Has(call.reply.body, "error")
    /\ call.reply.body.location = JStr(<<>>)
    /\ call.reply.body.duration = JInt(5)
    /\ call.reply.body.interests = Temples
    /\ call.result.value.error = JStr(<<"Location is required">>)

\* C19: an extraction failure carries no partial fields: the result holds the
\* error marker and nothing else.
C19_ParseFailureOnlyError ==
    ParseFailed => KeysOf(call.result.value) = {"error"}

C19_Witness ==
    /\ ParseFailed
    /\ call.reply.body.duration = JInt(5)
    /\ call.reply.body.interests = Temples
    /\ call.reply.body.budget = JStr(<<"low">>)
    /\ ~Has(call.result.value, "duration")
    /\ ~Has(call.result.value, "interests")
    /\ ~Has(call.result.value, "budget")

IsComposeCall == call.op = "generate_followup_question"

\* a string of blanks only (the empty string included)
Blank(s) == \A i \in 1..Len(s) : s[i] = " "

\* the backend gave the composer no question: none at all, or an empty or a
\* whitespace-only one
NoQuestion(body) ==
    \/ ~Has(body, "question")
    \/ body.question.kind = "str" /\ Blank(body.question.s)

\* C20: when the analysis has missing fields and the composer's backend call
\* errors or yields an empty or whitespace-only question, the composer
\* returns exactly "Could you tell me more about your trip?".
C20_ComposerDefaultQuestion ==
    (/\ IsComposeCall /\ RepliedDict
     /\ Has(call.analysis, "missing") /\ Len(call.analysis.missing.l) > 0
     /\ Has(call.reply.body, "error") \/ NoQuestion(call.reply.body)) =>
        call.result = Return(<<"Could you tell me more about your trip?">>)

C20_Witness ==
    /\ IsComposeCall /\ RepliedDict
    /\ Len(call.analysis.missing.l) = 2
    /\ ~Has(call.reply.body, "error")
    /\ call.reply.body.question = JStr(<<" ", " ">>)
    /\ call.result.value = <<"Could you tell me more about your trip?">>

\* the analysis of the last direct call of the composer names nothing missing
NothingMissing == ~Truthy(GetOr(call.analysis, "missing", JList(<<>>)))

\* C21: generate_followup_question returns the empty string if and only if
\* analysis.missing is empty; in that case it makes no backend call (whatever
\* the backend would answer, a raising call included, the result is ""), and
\* whenever analysis.missing is non-empty the question returned is non-empty.
C21_EmptyIffNothingMissing ==
    IsComposeCall =>
        /\ NothingMissing => call.result = Return(<<>>)
        /\ (~NothingMissing /\ ~call.result.raised) =>
              /\ call.result.value # <<>>
              /\ ~Blank(call.result.value)

C21_Witness ==
    /\ IsComposeCall
    /\ Has(call.analysis, "missing") /\ Len(call.analysis.missing.l) = 0
    /\ call.reply.raises
    /\ call.result = Return(<<>>)

\* C22: every NeedsMoreInfo result returned by a step carries a non-empty
\* follow-up question, whatever extractor and analyzer output made the gate
\* refuse (an analysis whose missing list is empty included).
C22_NeedsMoreInfoHasQuestion ==
    (IsStep /\ IsNeedsMoreInfo(call.result)) =>
        /\ call.result.followup_question # <<>>
        /\ ~Blank(call.result.followup_question)

C22_Witness ==
    /\ IsStep /\ IsNeedsMoreInfo(call.result)
    /\ call.analysis.missing = JList(<<>>)
    /\ call.followup = <<>>
    /\ call.result.followup_question =
           <<"Could you provide more details about your trip?">>

C24_ReasonEmptyIffProceed ==
    IsGateCall => (call.result.reason = <<>> <=> call.result.proceed)

C24_Witness ==
    /\ IsGateCall
    /\ ~call.result.proceed
    /\ call.result.reason = NeedInterests
    /\ Truthy(Get(call.parsed, "location"))
    /\ Truthy(Get(call.parsed, "duration"))

\* C25: the gate ignores the analysis: for the field set of a turn,
\* should_continue_planning returns the same decision and reason for any
\* other analysis, so neither the confidence nor the missing list can block
\* or allow progress; and the turn returns Ready exactly when the three
\* required fields of the extraction are there, whatever the analysis.
C25_GateIgnoresAnalysis ==
    GateRan =>
        /\ \A a \in GateAnalyses :
              should_continue_planning(call.details, a) = call.decision
        /\ IsFailed(call.result) \/
              (IsReady(call.result) <=>
                  /\ ~Missing(call.details, "location")
                  /\ ~Missing(call.details, "duration")
                  /\ ~Missing(call.details, "interests"))

C25_Witness ==
    /\ GateRan
    /\ IsReady(call.result)
    /\ call.analysis.confidence = JInt(0)
    /\ Len(call.analysis.missing.l) = 3
    /\ call.result.confidence = JInt(0)

\* C26: the turn is deterministic in the collaborators' outputs: two sessions
\* with different prior history and accumulated, given the same extractor,
\* analyzer and composer outputs for a turn, return the same result for it.
C26_SameOutputsSameResult ==
    call.op = "both" => call.first = call.second

C26_Witness ==
    /\ call.op = "both"
    /\ call.before.first.history # call.before.second.history
    /\ Has(call.before.first.parsed, "budget")
    /\ ~Has(call.before.second.parsed, "budget")
    /\ IsReady(call.first)
    /\ ~Has(call.first.details, "budget")
    /\ call.first = call.second

\* the instance the last operation was not called on
Bystander == IF call.on = 1 THEN "second" ELSE "first"

\* C27: conversation states are independent: with two ConversationManager
\* instances whose steps, add_to_history and reset calls interleave in any
\* order, no operation on one instance changes the history or accumulated of
\* the other.
C27_InstancesIndependent ==
    call.op \in {"validate_and_get_followup", "add_to_history", "reset"} =>
        BeforeBoth[Bystander] = call.before[Bystander]

C27_Witness ==
    /\ call.op = "reset"
    /\ call.on = 2
    /\ Len(call.before.second.history) = MaxHistory
    /\ second_manager = NewManager
    /\ Len(conversation_history) = MaxHistory
    /\ Has(parsed_details, "location")

\* a message that ends a trip request: the restart message, or the outcome of
\* planning
EndsRequest(m) ==
    /\ m.role = "assistant"
    /\ \/ m = StartChatting
       \/ m.content = <<"Trip plan generated successfully!">>
       \/ m.content # <<>> /\ Head(m.content) = "Error: "

\* the utterances of the trip request the last chat input belongs to, in
\* order: what the user typed since the last restart or planned turn (the
\* last message is the page's answer to the chat input)
CurrentUtterances ==
    LET ms == SubSeq(session_state.messages, 1, Len(session_state.messages) - 1)
        ends == {0} \cup {i \in 1..Len(ms) : EndsRequest(ms[i])}
        b == CHOOSE i \in ends : \A j \in ends : j <= i
        typed == SelectSeq(SubSeq(ms, b + 1, Len(ms)),
                           LAMBDA m : m.role = "user")
    IN  [i \in 1..Len(typed) |-> typed[i].content]

\* C28: the caller gives every step the full accumulated text: the text the
\* page passes to validate_and_get_followup is the concatenation, in order,
\* of the utterances of the current trip request (since the last Ready turn
\* or restart), with no utterance of an earlier request.
C28_TextOfCurrentRequest ==
    call.op = "chat_input" => call.combined_input = Join(CurrentUtterances)

\* the last chat input was a Ready turn and the sub-agents were called
Planned ==
    /\ call.op = "chat_input"
    /\ call.planned
    /\ call.plan_data.success

\* C29: on completion the field set frozen by the conversation state is what
\* planning uses: after a Ready turn, the location, duration and interests
\* given to the planning pipeline are those of the Ready result, with no
\* value the conversation state did not accept.
C29_PlanningUsesReadyFields ==
    Planned =>
        \A k \in {"location", "duration", "interests"} :
            call.given[k] = call.validation_result.details[k]

\* an integer between 0 and 100
IsPercent(v) == v.kind = "int" /\ v.n >= 0 /\ v.n <= 100

\* C30: the confidence of every analysis the analyzer returns (and so of
\* every NeedsMoreInfo and Ready result of a step) is an integer between 0
\* and 100 inclusive.
C30_ConfidenceIsPercent ==
    (IsAnalyzeCall /\ ~call.result.raised) =>
        IsPercent(call.result.value.confidence)

\* C31: every non-error field set the extractor returns satisfies the
\* constraints of a trip field set: location is a non-empty string, duration
\* when present is a positive integer, and interests when present is a
\* non-empty sequence.
C31_ParsedFieldsWellFormed ==
    ParsedFields =>
        /\ call.result.value.location.kind = "str"
        /\ call.result.value.location.s # <<>>
        /\ Has(call.result.value, "duration") =>
              /\ call.result.value.duration.kind = "int"
              /\ call.result.value.duration.n > 0
        /\ Has(call.result.value, "interests") =>
              /\ call.result.value.interests.kind = "list"
              /\ call.result.value.interests.l # <<>>

\* C32: call_openai_api never raises: a client exception, an empty or
\* whitespace-only reply and a reply that is not valid JSON after unwrapping
\* each yield a dict with an "error" key, and any other reply yields the
\* parsed JSON of the unwrapped text.
C32_BackendCallNeverRaises ==
    call.op = "call_openai_api" =>
        /\ ~call.result.raised
        /\ IF \/ call.client.raises
              \/ ~Truthy(call.client.content)
              \/ Strip(call.client.content.s) = <<>>
              \/ json_loads(clean_response(call.client.content.s)).raised
           THEN IsDict(call.result.value) /\ Has(call.result.value, "error")
           ELSE call.result.value
                    = json_loads(clean_response(call.client.content.s)).value

\* the same for the calls that pass only keywords of the signature
C32_DeclaredKeywordsNeverRaise ==
    call.op = "call_openai_api" /\ call.keywords \subseteq AcceptedKeywords
        => C32_BackendCallNeverRaises

IsPlanCall == call.op = "plan_trip"

\* the coordinator's own parsing returned a result carrying an error
PlanParseError ==
    /\ IsPlanCall
    /\ PlanParseReturned(call.reply)
    /\ Has(CoordinatorDetails(call.reply.body), "error")

\* the coordinator's own parsing returned a result without an error
PlanParsed ==
    /\ IsPlanCall
    /\ PlanParseReturned(call.reply)
    /\ ~Has(CoordinatorDetails(call.reply.body), "error")

\* C33: when the coordinator's own request parsing returns a result carrying
\* an error, plan_trip returns success = false with an error message, calls
\* no sub-agent, and leaves the coordinator's stored travel context as it was.
C33_ParseErrorStopsPlanning ==
    PlanParseError =>
        /\ ~call.plan_data.success
        /\ call.plan_data.error # <<>>
        /\ call.calls = <<>>
        /\ session_state.travel_context = call.before

\* a parse error after a plan that had stored its details
C33_Witness ==
    /\ PlanParseError
    /\ call.before # EmptyDict
    /\ session_state.travel_context = call.before
    /\ call.calls = <<>>

\* C34: whenever the coordinator's parsing succeeds, plan_trip calls the
\* attractions operation, then the itinerary operation with the attractions
\* response (even a failed one), then the transportation operation, and
\* returns success = true with an errors list of exactly one entry per
\* failed sub-agent response, in that order.
C34_ThreeCallsThenSuccess ==
    PlanParsed =>
        /\ call.calls =
               <<[op |-> "find_attractions", attractions |-> "none"],
                 [op |-> "create_itinerary",
                  attractions |-> call.sub.attractions],
                 [op |-> "get_transportation_suggestions",
                  attractions |-> "none"]>>
        /\ call.plan_data.success
        /\ call.plan_data.errors = PlanErrors(call.sub)

\* the same with Mocks in the sub-agents' place
C34_MockedSubAgents ==
    (PlanParsed /\ call.mocked) => C34_ThreeCallsThenSuccess

\* C35: in every state reachable by turns and resets, accumulated is either
\* empty or a field set that passes the gate: a non-empty location, a
\* non-zero duration and non-empty interests, and never an error marker.
C35_AccumulatedPassesGate ==
    \/ parsed_details = EmptyDict
    \/ /\ Truthy(parsed_details.location)
       /\ Truthy(parsed_details.duration)
       /\ Truthy(parsed_details.interests)
       /\ ~Has(parsed_details, "error")
       /\ should_continue_planning(parsed_details, EmptyDict).proceed

\* a refused turn after a Ready one: the stored field set is still the
\* accepted one
C35_Witness ==
    /\ IsStep
    /\ IsNeedsMoreInfo(call.result)
    /\ ~Has(call.details, "error")
    /\ parsed_details # EmptyDict
    /\ parsed_details # call.details

\* the operations that only compute
PureOps ==
    {"parse_travel_details", "analyze_missing_info",
     "should_continue_planning", "generate_followup_question"}

\* C36: a turn that returns NeedsMoreInfo leaves accumulated unchanged, a turn
\* that returns Ready leaves history unchanged, and the extractor, the
\* analyzer, the gate and the composer change neither.
C36_Frame ==
    /\ (IsStep /\ IsNeedsMoreInfo(call.result)) =>
           parsed_details = call.before.parsed
    /\ (IsStep /\ IsReady(call.result)) =>
           conversation_history = call.before.history
    /\ call.op \in PureOps =>
           /\ parsed_details = call.before.parsed
           /\ conversation_history = call.before.history

\* a Ready turn in a session that has a question in its history
C36_Witness ==
    /\ IsStep
    /\ IsReady(call.result)
    /\ call.before.history # <<>>
    /\ conversation_history = call.before.history
    /\ parsed_details # call.before.parsed

\* the composer called on a session with history and accumulated fields
C36_WitnessPure ==
    /\ call.op = "generate_followup_question"
    /\ ~call.result.raised
    /\ call.before.history # <<>>
    /\ call.before.parsed # EmptyDict
    /\ conversation_history = call.before.history
    /\ parsed_details = call.before.parsed

\* the content of the message the page answered the last chat input with
Shown == LastEntry(session_state.messages).content

\* s ends with the text t
EndsWith(s, t) ==
    /\ Len(s) >= Len(t)
    /\ SubSeq(s, Len(s) - Len(t) + 1, Len(s)) = t

\* C37: when a turn returns Failed, the page shows the user the result's
\* error text and not a follow-up question.
C37_FailedShowsError ==
    (call.op = "chat_input" /\ IsFailed(call.validation_result)) =>
        /\ EndsWith(Shown, call.validation_result.error)
        /\ Shown # <<"Could you provide more details?">>

\* the extractor's backend answered with a JSON object of trip fields
ExtractionWellFormed ==
    /\ call.op = "chat_input"
    /\ ~call.extraction.raises
    /\ ~call.extraction.mock
    /\ IsDict(call.extraction.body)
    /\ ~Has(call.extraction.body, "error")

\* C38: with BaseAgent.call_openai_api as it is and a backend that answers
\* every request with a well-formed JSON object, every call the manager makes
\* is accepted: no turn returns Failed, and a turn whose extraction has a
\* location, a duration and interests returns Ready.
C38_RealBackendNeverFails ==
    ExtractionWellFormed =>
        /\ ~IsFailed(call.validation_result)
        /\ (/\ Truthy(call.extraction.body.location)
            /\ Truthy(call.extraction.body.duration)
            /\ Truthy(call.extraction.body.interests))
               => IsReady(call.validation_result)

====
